---- MODULE Spec2Model ----
(***************************************************************************)
(* A model of the OpenCode process supervisor (src/src/ProcessManager.ts)  *)
(* and of its line decoder StreamParser (src/unnamed/part_001).            *)
(*                                                                         *)
(* Text is a sequence of characters.  A character is a one-element string; *)
(* a run of letters that the code never looks inside ("type", "hello",     *)
(* "s1") is written as one element, a word.  feed() splits on "\n" only,   *)
(* trim() removes white space at the two ends only and JSON.parse reads a  *)
(* word as a whole, so a chunk boundary inside a word behaves as one next  *)
(* to it.                                                                  *)
(***************************************************************************)
EXTENDS Naturals, Sequences, FiniteSets, TLC

VARIABLES
    state,       \* ProcessManager.state: [isRunning, pid, lastError, sessionID]
    process,     \* ProcessManager.process: 0 (null) or the invocation it belongs to
    messageQueue,       \* ProcessManager.messageQueue
    isProcessingQueue,  \* ProcessManager.isProcessingQueue
    inv,         \* the executeMessage calls made so far, in call order
    stops,       \* the stop() calls made so far, in call order
    nSent,       \* number of sendMessage calls made
    nOut,        \* number of stdout chunks received
    parser,      \* StreamParser: [buffer, currentSessionID, pendingTools]
    pEvents,     \* decoder harness: every 'event' the parser emitted, in order
    text,        \* decoder harness: the text being fed
    pos,         \* decoder harness: how many characters of text were fed
    lastOp,      \* decoder harness: the last call; of a flush() or reset(),
                 \* also the parser before it and the events it emitted
    prevOp,      \* decoder harness: the name of the call before the last
    mark,        \* decoder harness: pos at the last reset()/flush()
    snap,        \* decoder harness: the parser right after that call
    snapLen,     \* decoder harness: Len(pEvents) right after that call
    resetLen,    \* decoder harness: Len(pEvents) at the last reset()
    decoded,     \* decoder harness: sessionIDs of the lines decoded since reset()
    prevLatch,   \* decoder harness: the latch value the last reset() cleared
    nOps,        \* decoder harness: number of flush()/reset() calls made
    raised,      \* decoder harness: a feed() or flush() threw to its caller
    selected,    \* chat view: the stored conversation last picked in the
                 \* history menu, and how many messages had been sent by then
    snapshots,   \* callers: the objects getState() returned, in call order
    view         \* chat view: the tool blocks of the message container, the
                 \* tool messages stored, and the tool events received

\* The decoder harness, with it the chat view, the manager, and all of it.
dvars == <<pEvents, text, pos, lastOp, prevOp, mark, snap, snapLen, resetLen,
           decoded, prevLatch, nOps, raised>>
hvars == <<dvars, selected, snapshots, view>>
mvars == <<state, process, messageQueue, isProcessingQueue, inv, stops, nSent, nOut>>
vars == <<mvars, parser, hvars>>

----------------------------------------------------------------------------
(* Characters and JavaScript values                                        *)

QUOTE == "\""
NL == "\n"
Digits == {"0", "1"}
\* White space that String.prototype.trim removes and JSON.parse skips.
WS == {" ", "\t", "\r", NL}
\* Characters that may not appear raw inside a JSON string literal.
Control == {"\t", "\r", NL}

\* A JavaScript value as the decoder sees it: its kind and, for a string or a
\* number, its characters.  The members of an object live in a path map.
Undef == [k |-> "undef", s |-> <<>>]
Null == [k |-> "null", s |-> <<>>]
Str(s) == [k |-> "str", s |-> s]
Num(s) == [k |-> "num", s |-> s]
Bool(w) == [k |-> "bool", s |-> <<w>>]
Obj == [k |-> "obj", s |-> <<>>]
Arr == [k |-> "arr", s |-> <<>>]
NoMap == [p \in {} |-> Undef]

\* JavaScript truthiness (ToBoolean).
Truthy(v) ==
    CASE v.k = "undef" -> FALSE
      [] v.k = "null" -> FALSE
      [] v.k = "str" -> v.s # <<>>
      [] v.k = "num" -> \E i \in 1..Len(v.s) : v.s[i] # "0"
      [] v.k = "bool" -> v.s = <<"true">>
      [] OTHER -> TRUE

\* a || b
\* An a || b that yields a whatever it is.
OrElse_Left(a, b) == a

OrElse(a, b) == IF Truthy(a) THEN a ELSE b

----------------------------------------------------------------------------
(* String.prototype.split('\n') and String.prototype.trim                  *)

RECURSIVE Split(_)
Split(s) ==
    IF \A i \in 1..Len(s) : s[i] # NL
    THEN <<s>>
    ELSE LET i == CHOOSE j \in 1..Len(s) :
                      s[j] = NL /\ \A h \in 1..(j - 1) : s[h] # NL
         IN <<SubSeq(s, 1, i - 1)>> \o Split(SubSeq(s, i + 1, Len(s)))

Trim(s) ==
    IF \A i \in 1..Len(s) : s[i] \in WS
    THEN <<>>
    ELSE LET a == CHOOSE i \in 1..Len(s) :
                      s[i] \notin WS /\ \A h \in 1..(i - 1) : s[h] \in WS
             b == CHOOSE i \in 1..Len(s) :
                      s[i] \notin WS /\ \A h \in (i + 1)..Len(s) : s[h] \in WS
         IN SubSeq(s, a, b)

----------------------------------------------------------------------------
(* JSON.parse: a recursive-descent reader of null, true, false, numbers,   *)
(* strings, arrays and objects.  A result is [ok, i, v, m]: i is the index *)
(* after the value, v the value, m the members of an object by path.       *)

Fail == [ok |-> FALSE, i |-> 0, v |-> Undef, m |-> NoMap]
Ok(i, v, m) == [ok |-> TRUE, i |-> i, v |-> v, m |-> m]

RECURSIVE SkipWS(_, _)
SkipWS(s, i) == IF i <= Len(s) /\ s[i] \in WS THEN SkipWS(s, i + 1) ELSE i

RECURSIVE DigitsEnd(_, _)
DigitsEnd(s, i) == IF i <= Len(s) /\ s[i] \in Digits THEN DigitsEnd(s, i + 1) ELSE i

\* The index of the closing quote of the string literal opened before i, or 0.
RECURSIVE StringEnd(_, _)
StringEnd(s, i) ==
    IF i > Len(s) \/ s[i] \in Control THEN 0
    ELSE IF s[i] = QUOTE THEN i ELSE StringEnd(s, i + 1)

\* The members m with member key set to (v, sub): a later duplicate key wins.
SetMember(m, key, v, sub) ==
    LET kept == {p \in DOMAIN m : p[1] # key}
        new == {<<key>>} \cup {<<key>> \o p : p \in DOMAIN sub}
    IN [p \in kept \cup new |->
           IF p \in new
           THEN IF p = <<key>> THEN v ELSE sub[SubSeq(p, 2, Len(p))]
           ELSE m[p]]

RECURSIVE ParseValue(_, _)
RECURSIVE ParseMembers(_, _, _)
RECURSIVE ParseElements(_, _)

ParseValue(s, i0) ==
    LET i == SkipWS(s, i0) IN
    IF i > Len(s) THEN Fail
    ELSE LET c == s[i] IN
      CASE c = "null" -> Ok(i + 1, Null, NoMap)
        [] c \in {"true", "false"} -> Ok(i + 1, Bool(c), NoMap)
        [] c \in Digits ->
             LET e == DigitsEnd(s, i) IN
             IF c = "0" /\ e > i + 1 THEN Fail
             ELSE Ok(e, Num(SubSeq(s, i, e - 1)), NoMap)
        [] c = QUOTE ->
             LET q == StringEnd(s, i + 1) IN
             IF q = 0 THEN Fail ELSE Ok(q + 1, Str(SubSeq(s, i + 1, q - 1)), NoMap)
        [] c = "{" ->
             LET j == SkipWS(s, i + 1) IN
             IF j <= Len(s) /\ s[j] = "}" THEN Ok(j + 1, Obj, NoMap)
             ELSE ParseMembers(s, j, NoMap)
        [] c = "[" ->
             LET j == SkipWS(s, i + 1) IN
             IF j <= Len(s) /\ s[j] = "]" THEN Ok(j + 1, Arr, NoMap)
             ELSE ParseElements(s, j)
        [] OTHER -> Fail

\* key ":" value, then "," and another member, or "}".
ParseMembers(s, i0, m) ==
    LET i == SkipWS(s, i0) IN
    IF i > Len(s) \/ s[i] # QUOTE THEN Fail
    ELSE LET q == StringEnd(s, i + 1) IN
      IF q = 0 THEN Fail
      ELSE LET key == SubSeq(s, i + 1, q - 1)
               c == SkipWS(s, q + 1)
           IN IF c > Len(s) \/ s[c] # ":" THEN Fail
              ELSE LET r == ParseValue(s, c + 1) IN
                IF ~r.ok THEN Fail
                ELSE LET m2 == SetMember(m, key, r.v, r.m)
                         j == SkipWS(s, r.i)
                     IN IF j > Len(s) THEN Fail
                        ELSE IF s[j] = "}" THEN Ok(j + 1, Obj, m2)
                        ELSE IF s[j] = "," THEN ParseMembers(s, j + 1, m2)
                        ELSE Fail

\* value, then "," and another element, or "]".
ParseElements(s, i0) ==
    LET r == ParseValue(s, i0) IN
    IF ~r.ok THEN Fail
    ELSE LET j == SkipWS(s, r.i) IN
      IF j > Len(s) THEN Fail
      ELSE IF s[j] = "]" THEN Ok(j + 1, Arr, NoMap)
      ELSE IF s[j] = "," THEN ParseElements(s, j + 1)
      ELSE Fail

JSONparse(s) ==
    LET r == ParseValue(s, 1) IN
    IF r.ok /\ SkipWS(s, r.i) > Len(s) THEN r ELSE Fail

\* Property access e.p1.p2...: the value at path, undefined when absent.
Get(e, path) == IF path \in DOMAIN e.m THEN e.m[path] ELSE Undef

\* Reading a property of undefined or null throws a TypeError.
Throws(v) == v.k \in {"undef", "null"}

----------------------------------------------------------------------------
(* StreamParser                                                            *)

W(w) == Str(<<w>>)
P1(a) == << <<a>> >>
P2(a, b) == << <<a>>, <<b>> >>
P3(a, b, c) == << <<a>>, <<b>>, <<c>> >>

NoTools == [c \in {} |-> Undef]
NewParser == [buffer |-> <<>>, currentSessionID |-> Null, pendingTools |-> NoTools]

TextEvent(content, messageID) ==
    [type |-> "text", content |-> content, messageID |-> messageID]
RawText(line) == TextEvent(Str(line), W("raw"))
SessionEvent(sid) == [type |-> "session", sessionID |-> sid]
StepStart == [type |-> "step_start"]
ErrorEvent(message) == [type |-> "error", message |-> message]

\* The result of a handler: the parser after it, the events it emitted, and
\* whether it threw (what it emitted and assigned before the throw stays).
Done(p, ev) == [p |-> p, ev |-> ev, threw |-> FALSE]
Threw(p, ev) == [p |-> p, ev |-> ev, threw |-> TRUE]

\* const toolEvent: ParsedToolEvent = { ... }, of an event that has a part
ToolEventOf(e) ==
    [type |-> "tool",
     toolName |-> OrElse(Get(e, P2("part", "tool")), W("unknown")),
     callID |-> OrElse(Get(e, P2("part", "callID")), Get(e, P2("part", "id"))),
     status |-> OrElse(Get(e, P3("part", "state", "status")), W("pending")),
     input |-> Get(e, P3("part", "state", "input")),
     output |-> Get(e, P3("part", "state", "output")),
     title |-> Get(e, P3("part", "state", "title")),
     error |-> Get(e, P3("part", "state", "error"))]

\* A map that keeps the first ToolEvent it was given for a callID.
Stored_First(tools, t) ==
    [c \in DOMAIN tools \cup {t.callID} |-> IF c \in DOMAIN tools THEN tools[c] ELSE t]

\* this.pendingTools.set(callID, toolEvent)
Stored(tools, t) ==
    [c \in DOMAIN tools \cup {t.callID} |-> IF c = t.callID THEN t ELSE tools[c]]

\* A decoder that reports a callID once and keeps later events for it to itself.
Announced_Once(tools, t) == IF t.callID \in DOMAIN tools THEN <<>> ELSE <<t>>

\* this.emit('event', toolEvent), whatever pendingTools holds
Announced(tools, t) == <<t>>

handleToolEvent(p, e) ==
    IF Throws(Get(e, P1("part"))) THEN Threw(p, <<>>)
    ELSE Done([p EXCEPT !.pendingTools = Stored(p.pendingTools, ToolEventOf(e))],
              Announced(p.pendingTools, ToolEventOf(e)))

\* The result t of a handler that ran after events ev were emitted.
\* A handleEvent that announces the session after the events of the line.
After_Swapped(ev, t) == [p |-> t.p, ev |-> t.ev \o ev, threw |-> t.threw]

\* What was emitted before t ran, followed by the result of t.
After(ev, t) == [p |-> t.p, ev |-> ev \o t.ev, threw |-> t.threw]

\* A handleEvent that announces every sessionID it sees.
Latches_Every(p, sid) == Truthy(sid)

\* The session latch of handleEvent: set on the first truthy sessionID.
Latches(p, sid) == Truthy(sid) /\ ~Truthy(p.currentSessionID)

\* A switch whose default case reports the type it does not know.
Ignored_Reported(p) == Done(p, <<ErrorEvent(W("Unknown error"))>>)

\* switch (event.type) has no default case
Ignored(p) == Done(p, <<>>)

\* switch (event.type) { ... } of handleEvent
Route(p, e) ==
    LET type == Get(e, P1("type"))
        part == Get(e, P1("part"))
    IN CASE type = W("step_start") -> Done(p, <<StepStart>>)
         [] type = W("text") ->
              IF Throws(part) THEN Threw(p, <<>>)
              ELSE IF Truthy(Get(e, P2("part", "text")))
              THEN Done(p, <<TextEvent(Get(e, P2("part", "text")),
                                       Get(e, P2("part", "messageID")))>>)
              ELSE Done(p, <<>>)
         [] type = W("tool_use") -> handleToolEvent(p, e)
         [] type = W("step_finish") ->
              IF Throws(part) THEN Threw(p, <<>>)
              ELSE Done(p, <<[type |-> "step_finish",
                              reason |-> Get(e, P2("part", "reason")),
                              tokens |-> Get(e, P2("part", "tokens")),
                              cost |-> Get(e, P2("part", "cost"))]>>)
         [] type = W("error") ->
              IF Throws(part) THEN Threw(p, <<>>)
              ELSE Done(p, <<ErrorEvent(OrElse(Get(e, P2("part", "text")),
                                               W("Unknown error")))>>)
         [] OTHER -> Ignored(p)

\* The session latch, then the switch.
handleEvent(p, e) ==
    IF Throws(e.v) THEN Threw(p, <<>>)
    ELSE LET sid == Get(e, P1("sessionID"))
         IN IF Latches(p, sid)
            THEN After(<<SessionEvent(sid)>>, Route([p EXCEPT !.currentSessionID = sid], e))
            ELSE Route(p, e)

\* A catch block that swallows the line.
Catch_Silent(h, line) == Done(h.p, h.ev)

\* A parseLine without the try/catch: what the try block throws goes on to
\* the caller.
Catch_Rethrow(h, line) == h

\* The catch block of parseLine: if (line.trim()) emit the line as raw text.
\* Nothing in it throws.
Catch(h, line) ==
    IF h.threw
    THEN Done(h.p, h.ev \o (IF Trim(line) # <<>> THEN <<RawText(line)>> ELSE <<>>))
    ELSE Done(h.p, h.ev)

\* The try block of parseLine: JSON.parse throws, or handleEvent runs.
Try(p, e) == IF e.ok THEN handleEvent(p, e) ELSE Threw(p, <<>>)

\* try { handleEvent(JSON.parse(line)) } catch { if (line.trim()) emit raw text }
parseLine(p, line) == Catch(Try(p, JSONparse(line)), line)

\* for (const line of lines) { if (!line.trim()) continue; parseLine(line.trim()) }
RECURSIVE ProcessLines(_, _, _)
RECURSIVE AfterLine(_, _, _)
ProcessLines(p, lines, ev) ==
    IF lines = <<>> THEN Done(p, ev)
    ELSE IF Trim(Head(lines)) = <<>> THEN ProcessLines(p, Tail(lines), ev)
    ELSE AfterLine(parseLine(p, Trim(Head(lines))), lines, ev)

\* The rest of the loop once the first of lines was parsed with result r: a
\* throw out of parseLine would end the loop.
AfterLine(r, lines, ev) ==
    IF r.threw THEN Threw(r.p, ev \o r.ev)
    ELSE ProcessLines(r.p, Tail(lines), ev \o r.ev)

\* A processBuffer that keeps no trailing fragment.
Retained_Dropped(lines) == <<>>

\* lines.pop() || ''
Retained(lines) == lines[Len(lines)]

processBuffer(p) ==
    ProcessLines([p EXCEPT !.buffer = Retained(Split(p.buffer))],
                 SubSeq(Split(p.buffer), 1, Len(Split(p.buffer)) - 1), <<>>)

feed(p, data) == processBuffer([p EXCEPT !.buffer = p.buffer \o data])

getSessionID(p) == p.currentSessionID

\* A reset() that leaves the session latch set.
reset_KeepLatch(p) == [p EXCEPT !.buffer = <<>>, !.pendingTools = NoTools]

reset(p) == [p EXCEPT !.buffer = <<>>, !.currentSessionID = Null,
                      !.pendingTools = NoTools]

\* A flush() that leaves the pending line in the buffer.
Emptied_Kept(r) == r

\* this.buffer = '' after the pending line was parsed with result r; a throw
\* out of parseLine would skip it.
Emptied(r) == IF r.threw THEN r ELSE Done([r.p EXCEPT !.buffer = <<>>], r.ev)

flush(p) ==
    IF Trim(p.buffer) # <<>>
    THEN Emptied(parseLine(p, Trim(p.buffer)))
    ELSE Done(p, <<>>)

----------------------------------------------------------------------------
(* Lines of the protocol, as the agent process prints them                 *)

Q(w) == <<QUOTE, w, QUOTE>>
KV(k, w) == Q(k) \o <<":">> \o Q(w)
Braces(members) == <<"{">> \o members \o <<"}">>
\* {"sessionID":"<sid>"}
SidLine(sid) == Braces(KV("sessionID", sid))
\* {"type":"<type>"}
TypeLine(type) == Braces(KV("type", type))
\* "<key>":{<members>}
Member(key, members) == Q(key) \o <<":">> \o Braces(members)
\* {"type":"<type>","part":{<members>}}
PartLine(type, members) == Braces(KV("type", type) \o <<",">> \o Member("part", members))
\* the object of line with "sessionID":"<sid>" as its first member
WithSid(sid, line) == <<"{">> \o KV("sessionID", sid) \o <<",">> \o Tail(line)
\* "<key>":""
Empty(key) == Q(key) \o <<":", QUOTE, QUOTE>>
\* {"type":"tool_use","part":{<members>}}
ToolLine(members) == Braces(KV("type", "tool_use") \o <<",">> \o Member("part", members))

----------------------------------------------------------------------------
(* ProcessManager                                                          *)
(* The application has its listeners registered (ChatView registers them,  *)
(* 'error' among them, before any message is sent).                        *)

MaxMsgs == 3       \* sendMessage calls in one run
MaxStops == 1      \* stop() and restart() calls in one run
MaxChunks == 1     \* stdout chunks received in one run

\* Error values: null, "Process exited with code <code>", the error of a
\* spawn that failed (reported by an 'error' event), and the error spawn()
\* itself threw.
NoError == [kind |-> "none", code |-> 0]
ExitError(code) == [kind |-> "exit", code |-> code]
SpawnFailure == [kind |-> "spawn", code |-> 0]
SpawnThrown == [kind |-> "thrown", code |-> 0]

\* spawn() returns a running process ("ok"), returns a handle without a pid
\* and reports the failure in an 'error' event ("fail"), or throws ("throw").
SpawnOutcomes == {"ok", "fail", "throw"}

\* How a process ends: with an exit code, or killed by a signal (code null).
ExitCodes == {0, 1}
Outcomes(sig) ==
    {[exited |-> TRUE, code |-> c, signal |-> "none"] : c \in ExitCodes}
        \cup {[exited |-> FALSE, code |-> 0, signal |-> g] : g \in sig}

\* An exit handler that also rejects when a signal ended the process.
Rejects_Killed(o) == ~o.exited \/ o.code # 0

\* code !== 0 && code !== null
Rejects(o) == o.exited /\ o.code # 0

\* What the agent process may write to its stdout in one chunk.
OutChunks == {SidLine("s1") \o <<NL>>, SidLine("s2") \o <<NL>>, <<"x">>}

IsSession(e) == e.type = "session"

\* setupParserListeners: the application event emitted for a parser event.
AppEvent(e) ==
    CASE e.type = "text" -> [type |-> "text", content |-> e.content]
      [] e.type = "tool" ->
           [type |-> "tool", name |-> e.toolName, status |-> e.status,
            title |-> e.title, input |-> e.input, output |-> e.output,
            error |-> e.error]
      [] e.type = "step_start" -> [type |-> "step-start"]
      [] e.type = "step_finish" ->
           [type |-> "step-finish", reason |-> e.reason, tokens |-> e.tokens,
            cost |-> e.cost]
      [] e.type = "session" -> [type |-> "session", sessionID |-> e.sessionID]
      [] e.type = "error" -> [type |-> "parse-error", message |-> e.message]

AppEvents(evs) == [i \in 1..Len(evs) |-> AppEvent(evs[i])]

\* this.emit('running', this.state)
Running == [type |-> "running"]
\* this.emit('exit', { code, signal })
ExitEvent(o) ==
    [type |-> "exit", exited |-> o.exited, code |-> o.code, signal |-> o.signal]
\* this.emit('error', x), x an Error object or a message string
AppError(form, error) == [type |-> "error", form |-> form, error |-> error]

\* setupParserListeners, case 'session': this.state.sessionID = event.sessionID
RECURSIVE SessionAfter(_, _)
SessionAfter(evs, sessionID) ==
    IF evs = <<>> THEN sessionID
    ELSE SessionAfter(Tail(evs),
                      IF IsSession(Head(evs)) THEN Head(evs).sessionID ELSE sessionID)

\* An executeMessage(message) call: awaiting findOpenCodePath ("path"), its
\* process running ("live"), its spawn failed and the 'error' event due
\* ("failing"), its promise settled ("resolved", "rejected"), and returned to
\* processQueue ("done").  session is the -s argument, sig the signals sent
\* to its process, error what its promise rejected with, events
\* the application events emitted for it, in order, and out what its process
\* has printed on stdout.
NewInv(message) ==
    [msg |-> message, pc |-> "path", session |-> Null, sig |-> {}, error |-> NoError,
     events |-> <<>>, out |-> <<>>]

\* if (this.state.sessionID) args.push('-s', this.state.sessionID)
\* An argument list that never continues a session.
SessionArg_Fresh(st) == Null

SessionArg(st) == IF Truthy(st.sessionID) THEN st.sessionID ELSE Null

MInit ==
    /\ state = [isRunning |-> FALSE, pid |-> 0, lastError |-> NoError, sessionID |-> Null]
    /\ process = 0
    /\ messageQueue = <<>>
    /\ isProcessingQueue = FALSE
    /\ inv = <<>>
    /\ stops = <<>>
    /\ nSent = 0
    /\ nOut = 0

\* A drain loop that takes the newest message.
Shift_Pop(q) == [message |-> q[Len(q)], rest |-> SubSeq(q, 1, Len(q) - 1)]

\* this.messageQueue.shift()
Shift(q) == [message |-> Head(q), rest |-> Tail(q)]

\* processQueue() up to its first await, on queue q and invocations invs.
processQueue(q, invs) ==
    IF q = <<>>
    THEN /\ isProcessingQueue' = FALSE
         /\ messageQueue' = q
         /\ inv' = invs
    ELSE /\ isProcessingQueue' = TRUE
         /\ messageQueue' = Shift(q).rest
         /\ inv' = Append(invs, NewInv(Shift(q).message))

\* A sendMessage that starts a drain loop on every call.
Draining_Ignored == FALSE

\* if (!this.isProcessingQueue) await this.processQueue()
Draining == isProcessingQueue

\* sendMessage(message): messages are numbered in submission order.
sendMessage ==
    /\ nSent < MaxMsgs
    /\ nSent' = nSent + 1
    /\ IF Draining
       THEN /\ messageQueue' = Append(messageQueue, nSent + 1)
            /\ UNCHANGED <<isProcessingQueue, inv>>
       ELSE processQueue(Append(messageQueue, nSent + 1), inv)
    /\ UNCHANGED <<state, process, stops, nOut, parser, hvars>>

\* executeMessage after findOpenCodePath: the arguments, parser.reset() and
\* spawn(); unless spawn() threw, the state update and the 'running' event.
Spawn(k, how) ==
    /\ inv[k].pc = "path"
    /\ parser' = reset(parser)
    /\ IF how = "throw"
       THEN /\ inv' = [inv EXCEPT ![k].pc = "rejected",
                                  ![k].session = SessionArg(state),
                                  ![k].error = SpawnThrown]
            /\ UNCHANGED <<process, state>>
       ELSE /\ inv' = [inv EXCEPT ![k].pc = IF how = "ok" THEN "live" ELSE "failing",
                                  ![k].session = SessionArg(state),
                                  ![k].events = Append(@, Running)]
            /\ process' = k
            /\ state' = [state EXCEPT !.isRunning = TRUE,
                                      !.pid = IF how = "ok" THEN k ELSE 0,
                                      !.lastError = NoError]
    /\ UNCHANGED <<messageQueue, isProcessingQueue, stops, nSent, nOut, hvars>>

\* parser.feed(data) returned r in the stdout handler of invocation k.
Decoded(k, data, r) ==
    /\ parser' = r.p
    /\ state' = [state EXCEPT !.sessionID = SessionAfter(r.ev, @)]
    /\ inv' = [inv EXCEPT ![k].events = @ \o AppEvents(r.ev),
                          ![k].out = @ \o data]

\* stdout 'data': this.parser.feed(data.toString())
Stdout(k, chunk) ==
    /\ inv[k].pc = "live"
    /\ nOut' = nOut + 1
    /\ Decoded(k, chunk, feed(parser, chunk))
    /\ UNCHANGED <<process, messageQueue, isProcessingQueue, stops, nSent, hvars>>

OnStdout(k, chunk) == nOut < MaxChunks /\ Stdout(k, chunk)

\* The stdout listener stays on the stream of the child after its 'exit':
\* 'exit' comes when the process ends, which can be before its stdio
\* streams have closed, and no handler of the manager waits for 'close'.
\* A chunk read after 'exit' is fed to the one decoder all the same.
LateStdout(k, chunk) ==
    /\ k \in DOMAIN inv
    /\ \E i \in DOMAIN inv[k].events : inv[k].events[i].type = "exit"
    /\ nOut' = nOut + 1
    /\ Decoded(k, chunk, feed(parser, chunk))
    /\ UNCHANGED <<process, messageQueue, isProcessingQueue, stops, nSent, hvars>>

\* String.prototype.includes
Includes(s, w) == \E i \in 0..(Len(s) - Len(w)) : SubSeq(s, i + 1, i + Len(w)) = w

\* The words the stderr handler looks for.
ApiKey == <<"A", "P", "I", " ", "k", "e", "y">>
Auth == <<"a", "u", "t", "h">>
Clipboard == <<"c", "l", "i", "p", "b", "o", "a", "r", "d">>
Model == <<"m", "o", "d", "e", "l">>

\* new Error(`<category>: ${errorText.trim()}<hint>`)
Escalated(category, errorText) ==
    AppError("Error", [kind |-> "stderr", category |-> category, text |-> Trim(errorText)])

\* A handler that looks for the model before the clipboard.
Escalation_ModelFirst(errorText) ==
    IF Includes(errorText, ApiKey) \/ Includes(errorText, Auth)
    THEN <<Escalated("Authentication failed", errorText)>>
    ELSE IF Includes(errorText, Model)
    THEN <<Escalated("Model error", errorText)>>
    ELSE IF Includes(errorText, Clipboard)
    THEN <<Escalated("Clipboard error", errorText)>>
    ELSE <<>>

\* if (includes('API key') || includes('auth')) ... else if (includes('clipboard'))
\* ... else if (includes('model')) ...
Escalation(errorText) ==
    IF Includes(errorText, ApiKey) \/ Includes(errorText, Auth)
    THEN <<Escalated("Authentication failed", errorText)>>
    ELSE IF Includes(errorText, Clipboard)
    THEN <<Escalated("Clipboard error", errorText)>>
    ELSE IF Includes(errorText, Model)
    THEN <<Escalated("Model error", errorText)>>
    ELSE <<>>

\* this.emit('stderr', errorText)
StderrEvent(errorText) == [type |-> "stderr", text |-> errorText]

MaxStderr == 2     \* stderr chunks received in one run

\* The 'stderr' events emitted so far.
RECURSIVE Stderrs(_)
Stderrs(invs) ==
    IF invs = <<>> THEN 0
    ELSE Stderrs(Tail(invs))
             + Cardinality({i \in DOMAIN Head(invs).events :
                               Head(invs).events[i].type = "stderr"})

\* What the agent process prints on stderr.
StderrChunks ==
    { ApiKey, Model \o <<" ">> \o Auth, Clipboard \o <<" ">> \o Model \o <<NL>>,
      Model, <<"x", NL>> }

\* stderr 'data'
OnStderr(k, data) ==
    /\ inv[k].pc = "live"
    /\ Stderrs(inv) < MaxStderr
    /\ inv' = [inv EXCEPT ![k].events = (@ \o <<StderrEvent(data)>>) \o Escalation(data)]
    /\ UNCHANGED <<state, process, messageQueue, isProcessingQueue, stops, nSent,
                   nOut, parser, hvars>>

\* The 'exit' handler of executeMessage after this.parser.flush() returned r,
\* followed by the 'exit' listeners of the stop() calls on this process.
Exited(k, o, r) ==
    /\ parser' = r.p
    /\ state' = [state EXCEPT !.isRunning = FALSE,
                              !.pid = 0,
                              !.lastError = IF Rejects(o) THEN ExitError(o.code) ELSE @,
                              !.sessionID = SessionAfter(r.ev, @)]
    /\ process' = 0
    /\ inv' = [inv EXCEPT ![k].pc = IF Rejects(o) THEN "rejected" ELSE "resolved",
                          ![k].error = IF Rejects(o) THEN ExitError(o.code) ELSE NoError,
                          ![k].events = @ \o AppEvents(r.ev) \o <<ExitEvent(o)>>]
    /\ stops' = [i \in DOMAIN stops |->
                    IF stops[i].target = k THEN [stops[i] EXCEPT !.resolved = TRUE]
                    ELSE stops[i]]

\* process 'exit'
OnExit(k, o) ==
    /\ inv[k].pc = "live"
    /\ Exited(k, o, flush(parser))
    /\ UNCHANGED <<messageQueue, isProcessingQueue, nSent, nOut, hvars>>

\* process 'error', which reports a spawn that failed
OnError(k) ==
    /\ inv[k].pc = "failing"
    /\ state' = [state EXCEPT !.lastError = SpawnFailure, !.isRunning = FALSE]
    /\ inv' = [inv EXCEPT ![k].pc = "rejected",
                          ![k].error = SpawnFailure,
                          ![k].events = Append(@, AppError("Error", SpawnFailure))]
    /\ UNCHANGED <<process, messageQueue, isProcessingQueue, stops, nSent, nOut,
                   parser, hvars>>

\* The catch block of processQueue for the settled invocation k:
\* this.emit('error', error.message)
Caught(invs, k) ==
    [invs EXCEPT ![k].pc = "done",
                 ![k].events = IF invs[k].pc = "rejected"
                               THEN Append(@, AppError("message", invs[k].error))
                               ELSE @]

\* A drain loop without the try/catch: a rejection ends it.
Resume_Uncaught(k) ==
    /\ inv[k].pc \in {"resolved", "rejected"}
    /\ IF inv[k].pc = "rejected"
       THEN /\ inv' = [inv EXCEPT ![k].pc = "done"]
            /\ UNCHANGED <<messageQueue, isProcessingQueue>>
       ELSE processQueue(messageQueue, [inv EXCEPT ![k].pc = "done"])
    /\ UNCHANGED <<state, process, stops, nSent, nOut, parser, hvars>>

\* processQueue after await this.executeMessage(message): the catch block,
\* then the next processQueue().
Resume(k) ==
    /\ inv[k].pc \in {"resolved", "rejected"}
    /\ processQueue(messageQueue, Caught(inv, k))
    /\ UNCHANGED <<state, process, stops, nSent, nOut, parser, hvars>>

\* process.kill(signal) on the handle of invocation k: a process that is not
\* running receives nothing.
Kill(invs, k, signal) ==
    IF invs[k].pc = "live" THEN [invs EXCEPT ![k].sig = @ \cup {signal}] ELSE invs

\* A stop() call: the process it listens to (0: none), whether its timer is
\* pending, whether its promise is resolved, and whether restart() made the
\* call and has gone on since, emitting 'started'.
StopCall(target, byRestart) ==
    [target |-> target, timer |-> target # 0, resolved |-> target = 0,
     restart |-> byRestart, done |-> FALSE]

\* stop(), called directly or by restart(), up to the promise it returns.
stop(byRestart) ==
    /\ Len(stops) < MaxStops
    /\ IF process = 0 \/ ~state.isRunning
       THEN /\ stops' = Append(stops, StopCall(0, byRestart))
            /\ UNCHANGED inv
       ELSE /\ stops' = Append(stops, StopCall(process, byRestart))
            /\ inv' = Kill(inv, process, "SIGTERM")
    /\ UNCHANGED <<state, process, messageQueue, isProcessingQueue, nSent, nOut,
                   parser, hvars>>

\* The setTimeout callback of the i-th stop(), 3000 ms after the call.
StopTimer(i) ==
    /\ stops[i].timer
    /\ stops' = [stops EXCEPT ![i].timer = FALSE, ![i].resolved = TRUE]
    /\ inv' = IF process # 0 /\ state.isRunning
              THEN Kill(inv, process, "SIGKILL")
              ELSE inv
    /\ UNCHANGED <<state, process, messageQueue, isProcessingQueue, nSent, nOut,
                   parser, hvars>>

\* start()
start(st) == [st EXCEPT !.isRunning = TRUE]

\* restart() after await this.stop()
Restarted(i) ==
    /\ stops[i].restart
    /\ stops[i].resolved
    /\ ~stops[i].done
    /\ stops' = [stops EXCEPT ![i].done = TRUE]
    /\ parser' = reset(parser)
    /\ state' = start([state EXCEPT !.sessionID = Null])
    /\ UNCHANGED <<process, messageQueue, isProcessingQueue, inv, nSent, nOut, hvars>>

\* A clearSession() that also ends the running process.
clearSession_Kills ==
    /\ state' = [state EXCEPT !.sessionID = Null]
    /\ parser' = reset(parser)
    /\ inv' = IF process # 0 THEN Kill(inv, process, "SIGTERM") ELSE inv
    /\ UNCHANGED <<process, messageQueue, isProcessingQueue, stops, nSent, nOut, hvars>>

clearSession ==
    /\ state' = [state EXCEPT !.sessionID = Null]
    /\ parser' = reset(parser)
    /\ UNCHANGED <<process, messageQueue, isProcessingQueue, inv, stops, nSent,
                   nOut, hvars>>

----------------------------------------------------------------------------
(* The chat view's calls of clearSession(): the history menu and the new   *)
(* conversation button.  Stored conversations carry the sessionID that     *)
(* the 'session' listener recorded for them.                               *)

\* No stored conversation was picked, or a new one was started since.
NoConversation == [sessionID |-> Null, at |-> 0]

\* The sessionIDs recorded in the stored conversations.
StoredSessions == {W("s1")}

\* The tool blocks of the container: its elements with a data-tool-id, in
\* document order.  A block shows the tool, the title and the status of
\* the event last written into it.
NoView == [blocks |-> <<>>, messages |-> <<>>, seen |-> <<>>]

\* renderConversation: messagesContainer.empty(), then the stored messages
\* are rendered again; renderToolMessage gives its element no data-tool-id.
renderConversation(v) == [v EXCEPT !.blocks = <<>>]

\* showHistoryMenu, item.onClick on a conversation with sessionID recorded:
\* clearSession(), and getState(), whose result is not used.
showHistoryMenu(sessionID) ==
    /\ state' = [state EXCEPT !.sessionID = Null]
    /\ parser' = reset(parser)
    /\ selected' = [sessionID |-> sessionID, at |-> nSent]
    /\ view' = renderConversation(view)
    /\ UNCHANGED <<process, messageQueue, isProcessingQueue, inv, stops, nSent,
                   nOut, dvars, snapshots>>

\* startNewConversation: clearSession(), then a new conversation is shown.
startNewConversation ==
    /\ state' = [state EXCEPT !.sessionID = Null]
    /\ parser' = reset(parser)
    /\ selected' = NoConversation
    /\ view' = renderConversation(view)
    /\ UNCHANGED <<process, messageQueue, isProcessingQueue, inv, stops, nSent,
                   nOut, dvars, snapshots>>

----------------------------------------------------------------------------
(* Callers of getState().  An object a caller holds is a copy, with fields *)
(* of its own, or the manager's state object itself (shared), whose fields *)
(* are those of state.                                                     *)

MaxSnapshots == 2  \* getState() calls in one run

\* A getState() that hands out the state object.
getState_Shared(st) == [shared |-> TRUE, fields |-> st]

\* return { ...this.state }: the fields are booleans, numbers, strings, null
getState(st) == [shared |-> FALSE, fields |-> st]

\* What a caller reads in an object it holds.
Fields(object) == IF object.shared THEN state ELSE object.fields

\* A caller calls getState() and keeps the result.
ReadState ==
    /\ Len(snapshots) < MaxSnapshots
    /\ snapshots' = Append(snapshots, getState(state))
    /\ UNCHANGED <<mvars, parser, dvars, selected, view>>

\* The assignments a caller makes to a field of an object it holds.
Assignments ==
    { [field |-> "sessionID", value |-> W("s2")],
      [field |-> "isRunning", value |-> TRUE] }

\* A caller assigns to a field of the i-th object returned.
Assign(i, a) ==
    /\ Fields(snapshots[i])[a.field] # a.value
    /\ IF snapshots[i].shared
       THEN /\ state' = [state EXCEPT ![a.field] = a.value]
            /\ UNCHANGED snapshots
       ELSE /\ snapshots' = [snapshots EXCEPT ![i].fields[a.field] = a.value]
            /\ UNCHANGED state
    /\ UNCHANGED <<process, messageQueue, isProcessingQueue, inv, stops, nSent,
                   nOut, parser, dvars, selected, view>>

----------------------------------------------------------------------------
(* The chat view and the 'tool' events of the manager.  An event carries   *)
(* the name of the tool, the status and the title of the call, and no      *)
(* callID: the manager leaves it out of what it emits.                     *)

MaxSeen == 3       \* tool events the view receives in one run

ToolNames == {"bash", "read"}
ToolTitles == {"a", "b"}
ToolStatuses == {"pending", "running", "completed", "error"}
ToolEvents == [name : ToolNames, title : ToolTitles, status : ToolStatuses]

\* messagesContainer.querySelector(`[data-tool-id="${name}-latest"]`): the
\* first element of the container, in document order, with that attribute;
\* 0 stands for null.
querySelector(blocks, name) ==
    IF \E i \in DOMAIN blocks : blocks[i].name = name
    THEN CHOOSE i \in DOMAIN blocks :
             /\ blocks[i].name = name
             /\ \A j \in 1..(i - 1) : blocks[j].name # name
    ELSE 0

\* updateToolElement: the element is emptied and filled from the event.
updateToolElement(event) ==
    [name |-> event.name, title |-> event.title, status |-> event.status]

\* createToolElement: createDiv appends a block to the container, the
\* event is written into it, and a tool message is added to the active
\* conversation.
createToolElement(v, event) ==
    [v EXCEPT !.blocks = Append(@, updateToolElement(event)),
              !.messages = Append(@, [toolName |-> event.name,
                                      toolStatus |-> event.status])]

\* OpenCodeChatView.handleToolEvent
ToolHandled(v, event, existingTool) ==
    IF existingTool # 0 /\ event.status # "pending"
    THEN [v EXCEPT !.blocks[existingTool] = updateToolElement(event)]
    ELSE IF event.status = "pending" \/ event.status = "running" \/ existingTool = 0
    THEN createToolElement(v, event)
    ELSE v

\* processManager.on('tool', event => this.handleToolEvent(event))
OnTool(event) ==
    /\ Len(view.seen) < MaxSeen
    /\ view' = [ToolHandled(view, event, querySelector(view.blocks, event.name))
                  EXCEPT !.seen = Append(@, event)]
    /\ UNCHANGED <<mvars, parser, dvars, selected, snapshots>>

----------------------------------------------------------------------------
(* The decoder alone: a text is fed to a new StreamParser in chunks cut at *)
(* any position, with flush() and reset() called at any point.             *)

MaxLines == 2      \* lines of a composed text
MaxRaw == 3        \* length of an exhaustively enumerated text
MaxOps == 1        \* flush() and reset() calls in one run, a repeated flush() aside

\* Lines the agent process may print: banners, blank lines, bare JSON values,
\* and protocol lines with and without a part.
Lines ==
    { <<"x">>, <<" ", "x", " ", "x", "\r">>, <<" ">>,
      <<"1">>, <<"null">>, Q("x"), <<"[", "1", "]">>, <<"{", "}">>,
      SidLine("s1"), SidLine("s2"), TypeLine("step_start"), TypeLine("text") }

RawChars == {NL, " ", "x", "1"}

RECURSIVE Composed(_)
Composed(n) ==
    IF n = 0 THEN {<<>>}
    ELSE Composed(n - 1) \cup {t \o l \o <<NL>> : t \in Composed(n - 1), l \in Lines}

RECURSIVE RawTexts(_)
RawTexts(n) ==
    IF n = 0 THEN {<<>>}
    ELSE RawTexts(n - 1) \cup {Append(t, c) : t \in RawTexts(n - 1), c \in RawChars}

\* Composed texts end with a line break or with one more, unterminated, line.
Texts ==
    RawTexts(MaxRaw) \cup Composed(MaxLines)
        \cup {t \o l : t \in Composed(MaxLines - 1), l \in Lines}

\* The truthy sessionIDs carried by the lines of a list that decode.
SidOf(e) ==
    IF e.ok /\ Truthy(Get(e, P1("sessionID"))) THEN <<Get(e, P1("sessionID"))>> ELSE <<>>

RECURSIVE SidsOf(_)
SidsOf(lines) ==
    IF lines = <<>> THEN <<>>
    ELSE SidOf(JSONparse(Trim(Head(lines)))) \o SidsOf(Tail(lines))

\* The lines a feed(data) completes, given the buffer before it.
Completed(buffer, data) ==
    SubSeq(Split(buffer \o data), 1, Len(Split(buffer \o data)) - 1)

Call(op, pre, ev) == [op |-> op, pre |-> pre, ev |-> ev]

\* The harness before anything was fed of text t.
HInit(t) ==
    /\ pEvents = <<>>
    /\ text = t
    /\ pos = 0
    /\ lastOp = Call("new", NewParser, <<>>)
    /\ prevOp = "new"
    /\ mark = 0
    /\ snap = NewParser
    /\ snapLen = 0
    /\ resetLen = 0
    /\ decoded = <<>>
    /\ prevLatch = Null
    /\ nOps = 0
    /\ raised = FALSE
    /\ selected = NoConversation
    /\ snapshots = <<>>
    /\ view = NoView

PInit ==
    /\ MInit
    /\ parser = NewParser
    /\ \E t \in Texts : HInit(t)

\* parser.feed(data), which returned r
Fed(data, r) ==
    /\ parser' = r.p
    /\ pEvents' = pEvents \o r.ev
    /\ pos' = pos + Len(data)
    /\ lastOp' = Call("feed", NewParser, <<>>)
    /\ prevOp' = lastOp.op
    /\ decoded' = decoded \o SidsOf(Completed(parser.buffer, data))
    /\ raised' = (raised \/ r.threw)
    /\ UNCHANGED <<text, mark, snap, snapLen, resetLen, prevLatch, nOps, mvars, selected, snapshots, view>>

\* parser.feed(the next n characters of text)
Feed(n) ==
    /\ pos + n <= Len(text)
    /\ Fed(SubSeq(text, pos + 1, pos + n), feed(parser, SubSeq(text, pos + 1, pos + n)))

\* parser.flush(), which returned r
Flushed(r) ==
    /\ parser' = r.p
    /\ pEvents' = pEvents \o r.ev
    /\ lastOp' = Call("flush", parser, r.ev)
    /\ prevOp' = lastOp.op
    /\ decoded' = decoded \o SidsOf(<<parser.buffer>>)
    /\ mark' = pos
    /\ snap' = r.p
    /\ snapLen' = Len(pEvents \o r.ev)
    /\ raised' = (raised \/ r.threw)
    /\ UNCHANGED <<text, pos, resetLen, prevLatch, mvars, selected, snapshots, view>>

\* parser.flush()
Flush ==
    /\ nOps < MaxOps
    /\ Flushed(flush(parser))
    /\ nOps' = nOps + 1

\* parser.flush() again, right after a flush()
FlushAgain ==
    /\ lastOp.op = "flush"
    /\ prevOp # "flush"
    /\ Flushed(flush(parser))
    /\ UNCHANGED nOps

\* parser.reset()
Reset ==
    /\ nOps < MaxOps
    /\ parser' = reset(parser)
    /\ lastOp' = Call("reset", parser, <<>>)
    /\ prevOp' = lastOp.op
    /\ decoded' = <<>>
    /\ prevLatch' = getSessionID(parser)
    /\ mark' = pos
    /\ snap' = reset(parser)
    /\ snapLen' = Len(pEvents)
    /\ resetLen' = Len(pEvents)
    /\ nOps' = nOps + 1
    /\ UNCHANGED <<pEvents, text, pos, raised, mvars, selected, snapshots, view>>

PNext ==
    \/ \E n \in 1..(Len(text) - pos) : Feed(n)
    \/ Flush
    \/ FlushAgain
    \/ Reset

ParserSpec == PInit /\ [][PNext]_vars

\* Tool lines: callID c1 running; c1 completed with output 42; an empty
\* callID with id c2, sessionID s1 and no state; no part at all.  With them a line that is
\* no JSON, JSON null, and a known type without a part.
ToolLines ==
    { ToolLine(KV("callID", "c1") \o <<",">> \o Member("state", KV("status", "running"))),
      ToolLine(KV("callID", "c1") \o <<",">>
                   \o Member("state", KV("status", "completed") \o <<",">>
                                          \o KV("output", "42"))),
      WithSid("s1", ToolLine(Q("callID") \o <<":", QUOTE, QUOTE, ",">> \o KV("id", "c2"))),
      TypeLine("tool_use"),
      TypeLine("text"), <<"null">>, <<"x">> }

RECURSIVE ToolTexts(_)
ToolTexts(n) ==
    IF n = 0 THEN {<<>>}
    ELSE ToolTexts(n - 1) \cup {t \o l \o <<NL>> : t \in ToolTexts(n - 1), l \in ToolLines}

TInit ==
    /\ MInit
    /\ parser = NewParser
    /\ \E t \in ToolTexts(MaxLines) : HInit(t)

\* The text arrives a character at a time, three at a time, or all that is
\* left at once.
ChunkSizes == {n \in {1, 3, Len(text) - pos} : n >= 1}

TNext ==
    \/ \E n \in ChunkSizes : Feed(n)
    \/ Flush
    \/ FlushAgain
    \/ Reset

\* The decoder alone, fed the output of tool calls.
ToolSpec == TInit /\ [][TNext]_vars

\* Protocol lines: a text with sessionID s1 and messageID m1; a text that is
\* empty; a step_finish with sessionID s2; an error with a text, one without
\* and one whose text is empty; a step_start; a type the decoder does not
\* know, with and without a sessionID; a JSON number and JSON null.
ProtocolLines ==
    { WithSid("s1", PartLine("text", KV("messageID", "m1") \o <<",">> \o KV("text", "hello"))),
      PartLine("text", Empty("text")),
      WithSid("s2", PartLine("step_finish", KV("reason", "stop"))),
      PartLine("error", KV("text", "boom")),
      PartLine("error", <<>>),
      PartLine("error", Empty("text")),
      TypeLine("step_start"),
      TypeLine("future"),
      WithSid("s1", TypeLine("future")),
      <<"1">>, <<"null">> }

RECURSIVE ProtocolTexts(_)
ProtocolTexts(n) ==
    IF n = 0 THEN {<<>>}
    ELSE ProtocolTexts(n - 1)
             \cup {t \o l \o <<NL>> : t \in ProtocolTexts(n - 1), l \in ProtocolLines}

RInit ==
    /\ MInit
    /\ parser = NewParser
    /\ \E t \in ProtocolTexts(MaxLines) : HInit(t)

\* The decoder alone, fed protocol lines.
ProtocolSpec == RInit /\ [][TNext]_vars

----------------------------------------------------------------------------
(* The manager with its parser: calls of the public methods interleaved    *)
(* with the events of the event loop.                                      *)

Init ==
    /\ MInit
    /\ parser = NewParser
    /\ HInit(<<>>)

Next ==
    \/ sendMessage
    \/ \E k \in DOMAIN inv, how \in SpawnOutcomes : Spawn(k, how)
    \/ \E k \in DOMAIN inv, chunk \in OutChunks : OnStdout(k, chunk)
    \/ \E k \in DOMAIN inv : \E o \in Outcomes(inv[k].sig) : OnExit(k, o)
    \/ \E k \in DOMAIN inv : OnError(k)
    \/ \E k \in DOMAIN inv : Resume(k)
    \/ \E byRestart \in BOOLEAN : stop(byRestart)
    \/ \E i \in DOMAIN stops : StopTimer(i)
    \/ \E i \in DOMAIN stops : Restarted(i)
    \/ clearSession

Spec == Init /\ [][Next]_vars

\* The event loop runs what is due: the continuation of an await whose
\* promise has settled, and the 'exit' or 'error' event of a process that
\* ends or failed to start.
Progress ==
    \E k \in DOMAIN inv :
        \/ \E how \in SpawnOutcomes : Spawn(k, how)
        \/ \E o \in Outcomes(inv[k].sig) : OnExit(k, o)
        \/ OnError(k)
        \/ Resume(k)

FairSpec == Init /\ [][Next]_vars /\ WF_vars(Progress)

\* Two turns with more output and the chat view: the processes of a run
\* print up to MaxOut chunks between them, both by one process or one by
\* each, and the user picks and starts conversations in the view.
MaxTurns == 2      \* sendMessage calls in one run
MaxOut == 2        \* stdout chunks received in one run

\* The chunks of a run with more output: those of OutChunks and an error
\* line of the protocol.
TurnChunks == OutChunks \cup {PartLine("error", KV("text", "boom")) \o <<NL>>}

TurnsNext ==
    \/ nSent < MaxTurns /\ sendMessage
    \/ \E k \in DOMAIN inv, how \in SpawnOutcomes : Spawn(k, how)
    \/ \E k \in DOMAIN inv, chunk \in TurnChunks :
           nOut < MaxOut /\ Stdout(k, chunk)
    \/ \E k \in DOMAIN inv : \E o \in Outcomes(inv[k].sig) : OnExit(k, o)
    \/ \E k \in DOMAIN inv : OnError(k)
    \/ \E k \in DOMAIN inv : Resume(k)
    \/ \E byRestart \in BOOLEAN : stop(byRestart)
    \/ \E i \in DOMAIN stops : StopTimer(i)
    \/ \E i \in DOMAIN stops : Restarted(i)
    \/ \E sessionID \in StoredSessions : showHistoryMenu(sessionID)
    \/ startNewConversation

TurnsSpec == Init /\ [][TurnsNext]_vars

\* The manager and callers that read its state and assign to what they got.
StateNext ==
    \/ nSent < MaxTurns /\ sendMessage
    \/ \E k \in DOMAIN inv, how \in SpawnOutcomes : Spawn(k, how)
    \/ \E k \in DOMAIN inv, chunk \in OutChunks : OnStdout(k, chunk)
    \/ \E k \in DOMAIN inv : \E o \in Outcomes(inv[k].sig) : OnExit(k, o)
    \/ \E k \in DOMAIN inv : OnError(k)
    \/ \E k \in DOMAIN inv : Resume(k)
    \/ clearSession
    \/ ReadState
    \/ \E i \in DOMAIN snapshots, a \in Assignments : Assign(i, a)

StateSpec == Init /\ [][StateNext]_vars

\* The manager and a process that prints on stderr too.
StderrNext ==
    \/ nSent < MaxTurns /\ sendMessage
    \/ \E k \in DOMAIN inv, how \in SpawnOutcomes : Spawn(k, how)
    \/ \E k \in DOMAIN inv, chunk \in OutChunks : OnStdout(k, chunk)
    \/ \E k \in DOMAIN inv, data \in StderrChunks : OnStderr(k, data)
    \/ \E k \in DOMAIN inv : \E o \in Outcomes(inv[k].sig) : OnExit(k, o)
    \/ \E k \in DOMAIN inv : OnError(k)
    \/ \E k \in DOMAIN inv : Resume(k)

StderrSpec == Init /\ [][StderrNext]_vars

\* The manager and a process whose last output is read after its 'exit'.
LateNext ==
    \/ nSent < MaxTurns /\ sendMessage
    \/ \E k \in DOMAIN inv, how \in SpawnOutcomes : Spawn(k, how)
    \/ \E k \in DOMAIN inv, chunk \in OutChunks :
           nOut < MaxOut /\ Stdout(k, chunk)
    \/ \E k \in DOMAIN inv, chunk \in OutChunks :
           nOut < MaxOut /\ LateStdout(k, chunk)
    \/ \E k \in DOMAIN inv : \E o \in Outcomes(inv[k].sig) : OnExit(k, o)
    \/ \E k \in DOMAIN inv : OnError(k)
    \/ \E k \in DOMAIN inv : Resume(k)

LateSpec == Init /\ [][LateNext]_vars

\* The chat view and the tool events it receives.
ViewNext == \E event \in ToolEvents : OnTool(event)

ViewSpec == Init /\ [][ViewNext]_vars

----------------------------------------------------------------------------
(* Properties of the decoder, checked under ParserSpec and ToolSpec        *)

\* What was fed since the last flush()/reset() (or since construction), the
\* events emitted since then, and the lines completed since then.
Segment == SubSeq(text, mark + 1, pos)
SegmentEvents == SubSeq(pEvents, snapLen + 1, Len(pEvents))
SegmentLines == Completed(snap.buffer, Segment)
EventsSinceReset == SubSeq(pEvents, resetLen + 1, Len(pEvents))

NonBlank(line) == Trim(line) # <<>>
NonJSON(line) == ~JSONparse(Trim(line)).ok
\* Not a protocol object: not JSON, or a JSON value that is no object.
NonProtocol(line) == NonJSON(line) \/ JSONparse(Trim(line)).v.k # "obj"

RECURSIVE RawOfAll(_)
RawOfAll(lines) ==
    IF lines = <<>> THEN <<>>
    ELSE <<RawText(Trim(Head(lines)))>> \o RawOfAll(Tail(lines))

RECURSIVE RawOfNonBlank(_)
RawOfNonBlank(lines) ==
    IF lines = <<>> THEN <<>>
    ELSE (IF NonBlank(Head(lines)) THEN <<RawText(Trim(Head(lines)))>> ELSE <<>>)
             \o RawOfNonBlank(Tail(lines))

ReachedAs(r) == parser = r.p /\ SegmentEvents = r.ev

\* C5: however the text received since the last flush()/reset() was cut
\* into chunks, the parser (buffer, session latch, tool map) and the events
\* emitted are those of one feed() of that whole text.
C5_ChunkIndependence == ReachedAs(feed(snap, Segment))

\* C5 witness: a protocol line arrived in at least two chunks and was decoded.
C5_Witness ==
    /\ text = SidLine("s1") \o <<NL>>
    /\ pos = Len(text)
    /\ mark = 0
    /\ nOps = 0
    /\ prevOp = "feed"
    /\ pEvents = <<SessionEvent(W("s1"))>>

\* C6: every completed non-blank line that is not a protocol object (not
\* JSON, or a JSON number, string, boolean, null or array) is emitted as a
\* raw TextEvent holding the line.
C6_NeverDiscarded ==
    \A i \in 1..Len(SegmentLines) :
        NonBlank(SegmentLines[i]) /\ NonProtocol(SegmentLines[i])
            => \E j \in 1..Len(SegmentEvents) :
                   SegmentEvents[j] = RawText(Trim(SegmentLines[i]))

\* C7 as stated: when every completed line is non-JSON, each of them yields
\* exactly one event, the raw TextEvent of the trimmed line.
C7_Original ==
    (\A i \in 1..Len(SegmentLines) : NonJSON(SegmentLines[i]))
        => SegmentEvents = RawOfAll(SegmentLines)

\* C7 amended: when every completed line is non-JSON, each non-blank one
\* yields exactly one event, the raw TextEvent of the trimmed line, and a
\* blank one yields none.
C7_RawText ==
    (\A i \in 1..Len(SegmentLines) : NonJSON(SegmentLines[i]))
        => SegmentEvents = RawOfNonBlank(SegmentLines)

\* C7 witness: a banner with white space around it came out trimmed.
C7_Witness ==
    /\ text = <<" ", "x", " ", "x", "\r", NL>>
    /\ pos = Len(text)
    /\ mark = 0
    /\ pEvents = <<RawText(<<"x", " ", "x">>)>>

\* C8: since the last reset() (or construction) exactly one SessionEvent was
\* emitted if a decoded line carried a non-empty sessionID, carrying the
\* first such sessionID, which is what getSessionID() returns; none otherwise.
C8_SessionLatch ==
    /\ SelectSeq(EventsSinceReset, IsSession)
           = (IF decoded = <<>> THEN <<>> ELSE <<SessionEvent(decoded[1])>>)
    /\ getSessionID(parser) = (IF decoded = <<>> THEN Null ELSE decoded[1])

\* C8 witness: two lines with different sessionIDs were decoded after a reset().
C8_Witness ==
    /\ Len(decoded) = 2
    /\ decoded[1] # decoded[2]
    /\ text = SidLine("s1") \o <<NL>> \o SidLine("s2") \o <<NL>>
    /\ lastOp.op = "feed"
    /\ mark = 0
    /\ nOps = 1
    /\ snap = NewParser
    /\ Len(SelectSeq(pEvents, IsSession)) = 1

\* C9: right after reset() getSessionID() is null, and once a reset() has
\* cleared a set latch the next decoded sessionID is announced again.
C9_ResetRearms ==
    /\ lastOp.op = "reset" => getSessionID(parser) = Null
    /\ prevLatch # Null /\ decoded # <<>>
           => \E j \in 1..Len(EventsSinceReset) :
                  EventsSinceReset[j] = SessionEvent(decoded[1])

\* C9 witness: s1 was latched, reset() cleared it, and s1 was announced again.
C9_Witness ==
    /\ prevLatch = W("s1")
    /\ decoded = <<W("s1")>>
    /\ pEvents = <<SessionEvent(W("s1")), SessionEvent(W("s1"))>>

\* C10: a flush() with a non-blank pending line does what feed("\n") would
\* have done and leaves the buffer empty; a flush() right after a flush()
\* emits nothing; a flush() on an empty buffer emits nothing and changes
\* nothing.
C10_FlushOnce ==
    lastOp.op = "flush" =>
        /\ NonBlank(lastOp.pre.buffer)
               => /\ parser = feed(lastOp.pre, <<NL>>).p
                  /\ lastOp.ev = feed(lastOp.pre, <<NL>>).ev
                  /\ parser.buffer = <<>>
        /\ prevOp = "flush" => lastOp.ev = <<>>
        /\ lastOp.pre.buffer = <<>> => lastOp.ev = <<>> /\ parser = lastOp.pre

\* C10 witness: a pending line was flushed, and flush() was called again.
C10_Witness ==
    /\ text = <<"x">>
    /\ pos = 1
    /\ lastOp.op = "flush"
    /\ prevOp = "flush"
    /\ pEvents = <<RawText(<<"x">>)>>

IsTool(e) == e.type = "tool"
IsToolUse(line) ==
    JSONparse(Trim(line)).ok /\ Get(JSONparse(Trim(line)), P1("type")) = W("tool_use")
HasPart(line) == ~Throws(Get(JSONparse(Trim(line)), P1("part")))
\* A member that is there, or else another.
Present(e, path, other) == IF path \in DOMAIN e.m THEN e.m[path] ELSE other

\* The ToolEvent of a line as stated: callID is part.callID, or part.id when
\* there is no callID; status is pending when there is none.
StatedTool(e) ==
    [ToolEventOf(e) EXCEPT
        !.callID = Present(e, P2("part", "callID"), Get(e, P2("part", "id"))),
        !.status = Present(e, P3("part", "state", "status"), W("pending"))]

RECURSIVE StatedTools(_)
StatedTools(lines) ==
    IF lines = <<>> THEN <<>>
    ELSE (IF IsToolUse(Head(lines)) THEN <<StatedTool(JSONparse(Trim(Head(lines))))>>
          ELSE <<>>) \o StatedTools(Tail(lines))

\* One ToolEvent for each tool_use line that has a part, from that line only.
RECURSIVE ToolsOf(_)
ToolsOf(lines) ==
    IF lines = <<>> THEN <<>>
    ELSE (IF IsToolUse(Head(lines)) /\ HasPart(Head(lines))
          THEN <<ToolEventOf(JSONparse(Trim(Head(lines))))>>
          ELSE <<>>) \o ToolsOf(Tail(lines))

\* C11 as stated: every completed tool_use line has produced exactly one
\* ToolEvent, with callID part.callID, or part.id when callID is absent.
C11_Original == SelectSeq(SegmentEvents, IsTool) = StatedTools(SegmentLines)

\* C11 amended: the ToolEvents emitted are, in order, one for each completed
\* tool_use line that has a part, built from that line only, with callID
\* part.callID or, when that is absent or empty, part.id; a tool_use line
\* without a part comes out as raw text.
C11_ToolEvents ==
    /\ SelectSeq(SegmentEvents, IsTool) = ToolsOf(SegmentLines)
    /\ \A i \in 1..Len(SegmentLines) :
           IsToolUse(SegmentLines[i]) /\ ~HasPart(SegmentLines[i])
               => \E j \in 1..Len(SegmentEvents) :
                      SegmentEvents[j] = RawText(Trim(SegmentLines[i]))

\* C11 witness: c1 running, then c1 completed with output 42, came out as
\* two ToolEvents.
C11_Witness ==
    /\ pos = Len(text)
    /\ mark = 0
    /\ Len(pEvents) = 2
    /\ pEvents[1].type = "tool" /\ pEvents[2].type = "tool"
    /\ pEvents[1].callID = W("c1") /\ pEvents[1].status = W("running")
    /\ pEvents[2].callID = W("c1") /\ pEvents[2].status = W("completed")
    /\ pEvents[2].output = W("42")

IsOther(e) == e.type # "session"
\* What a line yields when it is the first a new parser reads.
RECURSIVE Alone(_)
Alone(lines) ==
    IF lines = <<>> THEN <<>>
    ELSE (IF NonBlank(Head(lines))
          THEN SelectSeq(parseLine(NewParser, Trim(Head(lines))).ev, IsOther)
          ELSE <<>>) \o Alone(Tail(lines))
\* The try block of parseLine throws on the line.
Recovered(line) == Try(NewParser, JSONparse(Trim(line))).threw

\* C12: no feed() or flush() has thrown to its caller, and every completed
\* line has yielded what it yields on a new decoder (SessionEvents aside),
\* whatever lines came before it.
C12_NeverThrows ==
    /\ ~raised
    /\ SelectSeq(SegmentEvents, IsOther) = Alone(SegmentLines)

\* C12 witness: a tool_use line without a part was recovered as raw text, and
\* the tool_use line after it was decoded.
C12_Witness ==
    /\ pos = Len(text)
    /\ mark = 0
    /\ Len(SegmentLines) = 2
    /\ Recovered(SegmentLines[1])
    /\ IsToolUse(SegmentLines[1])
    /\ Len(pEvents) = 2
    /\ pEvents[1] = RawText(TypeLine("tool_use"))
    /\ pEvents[2].type = "tool"

\* The text after the last line break of s, all of s if it has none.
LineBreaks(s) == {i \in 1..Len(s) : s[i] = NL}
AfterLastBreak(s) ==
    IF LineBreaks(s) = {} THEN s
    ELSE SubSeq(s, (CHOOSE i \in LineBreaks(s) : \A j \in LineBreaks(s) : j <= i) + 1, Len(s))

\* C28: after every feed(), flush() and reset() the buffer holds no line
\* break: it is the text after the last line break of what the decoder held
\* after the last flush()/reset() followed by what was fed since.
C28_BufferFragment ==
    /\ LineBreaks(parser.buffer) = {}
    /\ parser.buffer = AfterLastBreak(snap.buffer \o Segment)

\* C28 witness: a line, a line break and the start of the next line were
\* fed, and the start of the next line is what the buffer holds.
C28_Witness ==
    /\ text = <<"x", NL, "1">>
    /\ pos = 3
    /\ nOps = 0
    /\ parser.buffer = <<"1">>
    /\ pEvents = <<RawText(<<"x">>)>>

----------------------------------------------------------------------------
(* Properties of the decoding of protocol lines, checked under             *)
(* ProtocolSpec                                                            *)

Parsed(line) == JSONparse(Trim(line))
TypeOf(line) == Get(Parsed(line), P1("type"))
PartOf(line, key) == Get(Parsed(line), P2("part", key))

\* The SessionEvent a line with sessionIDs sid (none or one) sets off when
\* the latch is as given, and the latch after the line.
Announces(sid, latch) ==
    IF sid # <<>> /\ latch = Null THEN <<SessionEvent(sid[1])>> ELSE <<>>
LatchAfter(sid, latch) == IF sid # <<>> /\ latch = Null THEN sid[1] ELSE latch

\* For each line in turn: its SessionEvent if it sets the latch, then its
\* other events.
RECURSIVE SessionFirst(_, _)
SessionFirst(lines, latch) ==
    IF lines = <<>> THEN <<>>
    ELSE Announces(SidOf(Parsed(Head(lines))), latch)
             \o Alone(<<Head(lines)>>)
             \o SessionFirst(Tail(lines), LatchAfter(SidOf(Parsed(Head(lines))), latch))

\* C25: when a decoded line carries a non-empty sessionID and the latch is
\* unset, its SessionEvent comes right before the other events of that
\* line, after the events of the lines before it.
C25_SessionFirst == SegmentEvents = SessionFirst(SegmentLines, getSessionID(snap))

\* C25 witness: the text line with sessionID s1, messageID m1 and text hello
\* to a new decoder gave SessionEvent s1, then TextEvent hello of m1.
C25_Witness ==
    /\ text = WithSid("s1", PartLine("text", KV("messageID", "m1") \o <<",">>
                                                \o KV("text", "hello"))) \o <<NL>>
    /\ pos = Len(text)
    /\ nOps = 0
    /\ pEvents = <<SessionEvent(W("s1")), TextEvent(W("hello"), W("m1"))>>

\* The types the decoder routes.
Known == {W("step_start"), W("text"), W("tool_use"), W("step_finish"), W("error")}
\* A line that decodes and whose type is none of them.
Unknown(line) == Parsed(line).ok /\ TypeOf(line) \notin Known

\* For each line in turn: its SessionEvent if it sets the latch, then, unless
\* its type is unknown, its other events.
RECURSIVE IgnoringUnknown(_, _)
IgnoringUnknown(lines, latch) ==
    IF lines = <<>> THEN <<>>
    ELSE Announces(SidOf(Parsed(Head(lines))), latch)
             \o (IF Unknown(Head(lines)) /\ Parsed(Head(lines)).v # Null
                 THEN <<>>
                 ELSE Alone(<<Head(lines)>>))
             \o IgnoringUnknown(Tail(lines), LatchAfter(SidOf(Parsed(Head(lines))), latch))

\* C26 as stated: when every completed line decodes and has a type the
\* decoder does not know, no event was emitted and nothing was thrown.
C26_Original ==
    (\A i \in 1..Len(SegmentLines) : Unknown(SegmentLines[i]))
        => SegmentEvents = <<>> /\ ~raised

\* C26 amended: a decoded line other than JSON null whose type the decoder
\* does not know yields no event but the SessionEvent of its sessionID, when
\* it carries a non-empty one and the latch is unset, and nothing is thrown.
C26_UnknownIgnored ==
    /\ ~raised
    /\ SegmentEvents = IgnoringUnknown(SegmentLines, getSessionID(snap))

\* C26 witness: a line of an unknown type with sessionID s1 set the latch
\* and gave nothing else, and the same line again gave nothing.
C26_Witness ==
    /\ text = WithSid("s1", TypeLine("future")) \o <<NL>>
                  \o WithSid("s1", TypeLine("future")) \o <<NL>>
    /\ pos = Len(text)
    /\ nOps = 0
    /\ pEvents = <<SessionEvent(W("s1"))>>
    /\ ~raised

\* A line of a routed type that has what its type needs: a step_start, or a
\* text, step_finish or error with a part.
WellFormed(line) ==
    /\ Parsed(line).ok
    /\ \/ TypeOf(line) = W("step_start")
       \/ /\ TypeOf(line) \in {W("text"), W("step_finish"), W("error")}
          /\ ~Throws(Get(Parsed(line), P1("part")))

EmptyOrAbsent(v) == v = Undef \/ v = Str(<<>>)

\* What the routing is stated to yield for a well-formed line.
Stated(line) ==
    CASE TypeOf(line) = W("step_start") -> <<[type |-> "step_start"]>>
      [] TypeOf(line) = W("text") ->
           IF EmptyOrAbsent(PartOf(line, "text")) THEN <<>>
           ELSE <<[type |-> "text", content |-> PartOf(line, "text"),
                   messageID |-> PartOf(line, "messageID")]>>
      [] TypeOf(line) = W("step_finish") ->
           <<[type |-> "step_finish", reason |-> PartOf(line, "reason"),
              tokens |-> PartOf(line, "tokens"), cost |-> PartOf(line, "cost")]>>
      [] TypeOf(line) = W("error") ->
           <<[type |-> "error",
              message |-> IF EmptyOrAbsent(PartOf(line, "text"))
                          THEN W("Unknown error")
                          ELSE PartOf(line, "text")]>>

\* For each line in turn: its SessionEvent if it sets the latch, then what
\* the routing is stated to yield if it is well-formed.
RECURSIVE Routing(_, _)
Routing(lines, latch) ==
    IF lines = <<>> THEN <<>>
    ELSE Announces(SidOf(Parsed(Head(lines))), latch)
             \o (IF WellFormed(Head(lines))
                 THEN Stated(Head(lines))
                 ELSE Alone(<<Head(lines)>>))
             \o Routing(Tail(lines), LatchAfter(SidOf(Parsed(Head(lines))), latch))

\* C27: the session latch aside, a step_start line yields one StepEvent; a
\* text line one TextEvent of part.text and part.messageID if part.text is
\* not empty, and nothing otherwise; a step_finish line one StepEvent with
\* part.reason, part.tokens and part.cost; an error line one ErrorEvent
\* with part.text, or "Unknown error" when that is empty or absent.
C27_TypeRouting == SegmentEvents = Routing(SegmentLines, getSessionID(snap))

\* C27 witness: an error line without a text, then a step_finish line with
\* sessionID s2 and reason stop.
C27_Witness ==
    /\ text = PartLine("error", <<>>) \o <<NL>>
                  \o WithSid("s2", PartLine("step_finish", KV("reason", "stop"))) \o <<NL>>
    /\ pos = Len(text)
    /\ nOps = 0
    /\ pEvents = <<ErrorEvent(W("Unknown error")), SessionEvent(W("s2")),
                   [type |-> "step_finish", reason |-> W("stop"), tokens |-> Undef,
                    cost |-> Undef]>>

----------------------------------------------------------------------------
(* Properties of the dispatch queue, checked under Spec and FairSpec       *)

Invs == DOMAIN inv
Has(k, e) == \E i \in DOMAIN inv[k].events : inv[k].events[i] = e
HasExit(k) == \E i \in DOMAIN inv[k].events : inv[k].events[i].type = "exit"
\* The process of invocation k exited, or spawn failed for it.
Ended(k) ==
    \/ HasExit(k)
    \/ Has(k, AppError("Error", SpawnFailure))
    \/ inv[k].error = SpawnThrown
\* Invocation k got as far as spawn().
Spawned(k) == inv[k].pc # "path"
Live == {k \in Invs : inv[k].pc = "live"}
Idle == messageQueue = <<>> /\ ~isProcessingQueue
ExitedWith(k, code) ==
    Has(k, [type |-> "exit", exited |-> TRUE, code |-> code, signal |-> "none"])
Failed == {k \in Invs : \E c \in ExitCodes \ {0} : ExitedWith(k, c)}

\* C1: at most one process of the queue is live at any instant, and an
\* invocation exists, let alone spawns, only when the process of every
\* earlier one has exited or failed to spawn.
C1_SingleFlight ==
    /\ Cardinality(Live) <= 1
    /\ \A j \in Invs, k \in Invs : j < k => Ended(j) /\ inv[j].pc = "done"

\* The first process has exited and the second is live while a third
\* message waits in the queue.
C1_Witness ==
    /\ Len(inv) = 2
    /\ HasExit(1)
    /\ inv[2].pc = "live"
    /\ messageQueue = <<3>>

\* C2: invocations are made in submission order: the k-th invocation is for
\* the k-th message sent, the queue holds the later messages in order, and
\* an invocation has spawned only if every earlier one has.
C2_FIFO ==
    /\ \A k \in Invs : inv[k].msg = k
    /\ messageQueue = [i \in 1..(nSent - Len(inv)) |-> Len(inv) + i]
    /\ \A j \in Invs, k \in Invs : j < k /\ Spawned(k) => Spawned(j)

\* Three invocations have spawned in order, one of them failed, and a
\* stop() or restart() was called on the way.
C2_Witness ==
    /\ Len(inv) = 3
    /\ Spawned(3)
    /\ \E k \in Invs : inv[k].error # NoError
    /\ stops # <<>>

\* C3: an invocation whose process exited with a non-zero code is rejected
\* with the error that embeds the code; once processQueue has resumed, it has
\* emitted that error's message as the invocation's last event, and the
\* next message sent, if any, has its invocation.
C3_FailedTurn ==
    \A k \in Failed :
        /\ inv[k].pc \in {"rejected", "done"}
        /\ \E c \in ExitCodes \ {0} : ExitedWith(k, c) /\ inv[k].error = ExitError(c)
        /\ inv[k].pc = "done" =>
              /\ inv[k].events[Len(inv[k].events)] = AppError("message", inv[k].error)
              /\ nSent > k => k + 1 \in Invs

\* The first process exited with code 1, processQueue emitted the error, and
\* the process of the second invocation is live.
C3_Witness ==
    /\ Len(inv) >= 2
    /\ ExitedWith(1, 1)
    /\ Has(1, AppError("message", ExitError(1)))
    /\ inv[2].pc = "live"

Executed(m) == m \in Invs /\ inv[m].msg = m /\ inv[m].pc = "done"
AllExecuted == Len(inv) = nSent /\ \A k \in Invs : inv[k].pc = "done"

\* C4: every message sent eventually has its own invocation, which
\* completes; when all of them have completed the queue is idle, and a
\* sendMessage on an idle queue makes the invocation at once.
C4_Drains ==
    /\ \A m \in 1..MaxMsgs : (nSent >= m) ~> Executed(m)
    /\ [](AllExecuted => Idle)
    /\ []<>Idle
    /\ [][Idle /\ nSent' = nSent + 1 => Len(inv') = Len(inv) + 1]_vars

\* All messages were sent and executed, one ending with exit code 0, one
\* with a non-zero code and one with a failed spawn; the queue is idle.
C4_Witness ==
    /\ nSent = MaxMsgs
    /\ AllExecuted
    /\ Idle
    /\ \E k \in Invs : ExitedWith(k, 0)
    /\ \E k \in Invs : inv[k].error = ExitError(1)
    /\ \E k \in Invs : inv[k].error = SpawnFailure

----------------------------------------------------------------------------
(* Properties of stop(), restart() and clearSession(), checked under Spec  *)

Stops == DOMAIN stops
Got(k, signal) == signal \in inv[k].sig

\* C13: a process has been sent the forced termination signal only if a
\* stop() was called while it was the live process.
C13_ForcedOnlyTarget ==
    \A k \in Invs : Got(k, "SIGKILL") => \E i \in Stops : stops[i].target = k

\* C14: the promise of a stop() that found a live process is resolved only
\* when that process has exited.
C14_ResolvesOnExit ==
    \A i \in Stops : stops[i].target # 0 /\ stops[i].resolved => HasExit(stops[i].target)

\* Invocation k goes through spawn() in this step.
Spawning(k) == k \in Invs /\ inv[k].pc = "path" /\ inv'[k].pc # "path"

\* C15: when a restart() that stopped a live process has completed, the next
\* invocation, the first to spawn after it, is given no -s argument.
C15_FreshAfterRestart ==
    [][\A i \in Stops :
          stops[i].restart /\ stops[i].done /\ stops[i].target # 0
              /\ Spawning(stops[i].target + 1)
          => inv'[stops[i].target + 1].session = Null]_vars

HasSession(k) == \E i \in DOMAIN inv[k].events : inv[k].events[i].type = "session"

\* C16: a clearSession() step sets sessionID to null and resets the decoder,
\* and changes nothing else: not the process handle, isRunning, pid or
\* lastError, not the queue or its flag, and no process is sent a signal.
C16_ClearSessionFrame ==
    [][clearSession =>
          /\ state'.sessionID = Null
          /\ parser'.buffer = <<>>
          /\ getSessionID(parser') = Null
          /\ parser'.pendingTools = NoTools
          /\ process' = process
          /\ state'.isRunning = state.isRunning
          /\ state'.pid = state.pid
          /\ state'.lastError = state.lastError
          /\ messageQueue' = messageQueue
          /\ isProcessingQueue' = isProcessingQueue
          /\ DOMAIN inv' = DOMAIN inv
          /\ \A k \in Invs : inv'[k].sig = inv[k].sig /\ inv'[k].pc = inv[k].pc]_vars

\* C16 witness: the live process announced its session, no restart() was
\* called, and sessionID is null again while the process is still live and
\* a message waits.
C16_Witness ==
    /\ stops = <<>>
    /\ \E k \in Live : HasSession(k) /\ inv[k].sig = {} /\ process = k
    /\ state.sessionID = Null
    /\ getSessionID(parser) = Null
    /\ state.isRunning
    /\ messageQueue # <<>>

\* C17: the messages waiting are those sent and not yet taken, in the order
\* sent, and only an invocation that was running when stop() or restart()
\* was called has been sent a signal.
C17_AbortsOnlyCurrent ==
    /\ messageQueue = [i \in 1..(nSent - Len(inv)) |-> Len(inv) + i]
    /\ \A k \in Invs : inv[k].sig # {} => \E i \in Stops : stops[i].target = k

----------------------------------------------------------------------------
(* Properties of an invocation's process, checked under Spec               *)

\* C18: an invocation whose spawn failed, as told by the 'error' event of
\* its process, has emitted no 'running' event, and isRunning is not true
\* while the failure is pending.
C18_NeverRunning ==
    \A k \in Invs :
        /\ Has(k, AppError("Error", SpawnFailure)) => ~Has(k, Running)
        /\ inv[k].pc = "failing" => ~state.isRunning

\* The process of invocation k exits in this step.
Exiting(k) == k \in Invs /\ inv[k].pc = "live" /\ inv'[k].pc # "live"
LastEvent(k) == inv'[k].events[Len(inv'[k].events)]
\* The events of k without the last one.
Before(k) == SubSeq(inv'[k].events, 1, Len(inv'[k].events) - 1)

\* C19: the step in which a process exits flushes the decoder (the events
\* of the pending line come before 'exit'), sets isRunning to false and pid
\* to null, and settles the invocation: rejected with the error carrying
\* the exit code, which lastError records too, when the code is not 0, and
\* resolved, lastError as it was, when it is 0 or a signal ended the process.
C19_ExitSettles ==
    [][\A k \in Invs :
          Exiting(k) =>
              /\ parser' = flush(parser).p
              /\ Before(k) = inv[k].events \o AppEvents(flush(parser).ev)
              /\ LastEvent(k).type = "exit"
              /\ ~state'.isRunning
              /\ state'.pid = 0
              /\ IF LastEvent(k).exited /\ LastEvent(k).code # 0
                 THEN /\ inv'[k].pc = "rejected"
                      /\ inv'[k].error = ExitError(LastEvent(k).code)
                      /\ state'.lastError = ExitError(LastEvent(k).code)
                 ELSE /\ inv'[k].pc = "resolved"
                      /\ inv'[k].error = NoError
                      /\ state'.lastError = state.lastError]_vars

\* C19 witness: one process exited with code 1 and its invocation was
\* rejected, and the next was ended by SIGTERM with a line pending, which
\* was flushed, and its invocation is resolved.
C19_Witness ==
    /\ Len(inv) >= 2
    /\ ExitedWith(1, 1)
    /\ inv[1].error = ExitError(1)
    /\ inv[2].pc = "resolved"
    /\ inv[2].events = <<Running, [type |-> "text", content |-> Str(<<"x">>)],
                         [type |-> "exit", exited |-> FALSE, code |-> 0,
                          signal |-> "SIGTERM"]>>
    /\ ~state.isRunning
    /\ state.pid = 0
    /\ state.lastError = NoError

\* The application events emitted for invocation k in this step, and the
\* session events among a list of events.
NewEvents(k) == SubSeq(inv'[k].events, Len(inv[k].events) + 1, Len(inv'[k].events))
Sessions(evs) == SelectSeq(evs, IsSession)
Reported(k) == Sessions(NewEvents(k))

\* C20: an invocation is spawned with a -s argument iff state.sessionID is
\* not null when it spawns, and the argument is that sessionID.  A step in
\* which the output of an invocation reports a session sets state.sessionID
\* to the sessionID reported, and nothing else changes state.sessionID but
\* clearSession() and restart(), which set it to null: the invocation that
\* follows output reporting s, with neither call in between, is given s.
C20_Continuation ==
    [][/\ \A k \in Invs :
             /\ Spawning(k) => /\ inv'[k].session = state.sessionID
                               /\ inv'[k].session # Null => Truthy(inv'[k].session)
             /\ Reported(k) # <<>> =>
                    state'.sessionID = Reported(k)[Len(Reported(k))].sessionID
       /\ state'.sessionID # state.sessionID =>
              \/ \E k \in Invs : Reported(k) # <<>>
              \/ /\ state'.sessionID = Null
                 /\ clearSession \/ \E i \in Stops : Restarted(i)]_vars

\* C20 witness: the first invocation was spawned without -s, its output
\* reported the session s1, and the second was spawned with -s s1.
C20_Witness ==
    /\ Len(inv) = 2
    /\ inv[1].session = Null
    /\ Has(1, [type |-> "session", sessionID |-> W("s1")])
    /\ inv[2].session = W("s1")
    /\ Has(2, Running)
    /\ state.sessionID = W("s1")

----------------------------------------------------------------------------
(* Properties of the events of a run with more output, checked under       *)
(* TurnsSpec                                                               *)

\* C21: state.sessionID is assigned, and a 'session' event emitted, at most
\* once between two calls of restart() or clearSession(): a session is
\* reported only while state.sessionID is null, which it is from either
\* call until the first assignment after it, and one step reports one.
C21_CapturedOnce ==
    [][\A k \in Invs :
          Reported(k) # <<>> => state.sessionID = Null /\ Len(Reported(k)) = 1]_vars

\* The application events of invocation k that come from its output.
IsOutput(e) == e.type \notin {"running", "exit", "error"}
OutputEvents(k) == SelectSeq(inv[k].events, IsOutput)

\* The events of the lines of a text, in line order: of its complete lines,
\* and at exit of the unterminated line it ends with.
OfLines(out) == feed(NewParser, out)
OfLastLine(out) == flush(OfLines(out).p)
LineEvents(out, atExit) ==
    AppEvents(OfLines(out).ev \o (IF atExit THEN OfLastLine(out).ev ELSE <<>>))

\* C22: the events emitted for the output of an invocation are the events
\* of the complete lines its process has printed, in line order, followed
\* once it has exited by the events of the unterminated last line.
C22_LineOrder ==
    \A k \in Invs : OutputEvents(k) = LineEvents(inv[k].out, HasExit(k))

\* C23: the first message sent after a stored conversation with a recorded
\* sessionID was picked in the history menu, that conversation still being
\* shown, is spawned with -s and that sessionID.
C23_ResumesStored ==
    [][\A k \in Invs :
          Spawning(k) /\ selected.sessionID # Null /\ inv[k].msg = selected.at + 1
              => inv'[k].session = selected.sessionID]_vars

----------------------------------------------------------------------------
(* Properties of getState(), checked under StateSpec                       *)

Snapshots == DOMAIN snapshots
\* What a caller reads in the i-th object after the step.
FieldsAfter(i) == IF snapshots'[i].shared THEN state' ELSE snapshots'[i].fields

\* C24: getState() returns the state as it is at the call; an assignment
\* to a field of a returned object changes neither the manager's state,
\* and so no later getState(), nor any other returned object; and a step
\* of the manager changes no object returned before.
C24_Snapshot ==
    [][/\ Len(snapshots') > Len(snapshots)
           => /\ FieldsAfter(Len(snapshots')) = state
              /\ state' = state
       /\ \A i \in Snapshots :
              /\ \A a \in Assignments :
                     Assign(i, a) =>
                         /\ state' = state
                         /\ FieldsAfter(i) = [Fields(snapshots[i]) EXCEPT ![a.field] = a.value]
                         /\ \A j \in Snapshots \ {i} :
                                FieldsAfter(j) = Fields(snapshots[j])
              /\ snapshots' = snapshots => FieldsAfter(i) = Fields(snapshots[i])]_vars

\* C24 witness: a caller assigned to both fields of the first object it
\* got, the manager started a process and decoded its session since, and a
\* second object was returned after that: it shows the manager's state.
C24_Witness ==
    /\ Len(snapshots) = 2
    /\ snapshots[1].fields =
           [isRunning |-> TRUE, pid |-> 0, lastError |-> NoError, sessionID |-> W("s2")]
    /\ state = [isRunning |-> TRUE, pid |-> 1, lastError |-> NoError, sessionID |-> W("s1")]
    /\ Fields(snapshots[2]) = state
    /\ \E k \in Live : inv[k].session = Null

IsError(e) == e.type = "error"
\* The ErrorEvents of the decoder for the complete lines of a text.
ErrorLines(out) == SelectSeq(OfLines(out).ev, IsError)
\* Invocation k has an 'error' application event with this message.
Surfaced(k, message) ==
    \E j \in DOMAIN inv[k].events :
        inv[k].events[j].type = "error" /\ inv[k].events[j].error = message

\* C29: for every error line of the protocol an invocation's process has
\* printed, an 'error' application event with the message of the line has
\* been emitted.
C29_ErrorSurfaced ==
    \A k \in Invs :
        \A i \in DOMAIN ErrorLines(inv[k].out) :
            Surfaced(k, ErrorLines(inv[k].out)[i].message)

----------------------------------------------------------------------------
(* Properties of the stderr handler, checked under StderrSpec              *)

IsStderr(e) == e.type = "stderr"
\* The fatal categories, and the first of them a text matches, if any.
Authentication(t) == Includes(t, ApiKey) \/ Includes(t, Auth)
Capability(t) == Includes(t, Clipboard)
ModelFault(t) == Includes(t, Model)
Fatal(t) ==
    CASE Authentication(t) -> <<"Authentication failed">>
      [] ~Authentication(t) /\ Capability(t) -> <<"Clipboard error">>
      [] ~Authentication(t) /\ ~Capability(t) /\ ModelFault(t) -> <<"Model error">>
      [] OTHER -> <<>>

\* C30: a step that emits a 'stderr' event emits one, first, with the raw
\* text of the chunk; it emits one 'error' event more if the text matches
\* a fatal category, of the first category it matches (authentication,
\* clipboard, model), and no other event if it matches none.
C30_StderrEscalation ==
    [][\A k \in Invs :
          SelectSeq(NewEvents(k), IsStderr) # <<>> =>
              /\ Len(SelectSeq(NewEvents(k), IsStderr)) = 1
              /\ IsStderr(NewEvents(k)[1])
              /\ Len(NewEvents(k)) = 1 + Len(Fatal(NewEvents(k)[1].text))
              /\ Len(NewEvents(k)) = 2 =>
                     /\ NewEvents(k)[2].type = "error"
                     /\ NewEvents(k)[2].error.category = Fatal(NewEvents(k)[1].text)[1]
                     /\ NewEvents(k)[2].error.text = Trim(NewEvents(k)[1].text)]_vars

\* C30 witness: "clipboard model" was escalated as a clipboard error, and
\* "x" was not escalated.
C30_Witness ==
    \E k \in Invs :
        inv[k].events =
            <<Running,
              StderrEvent(Clipboard \o <<" ">> \o Model \o <<NL>>),
              Escalated("Clipboard error", Clipboard \o <<" ">> \o Model),
              StderrEvent(<<"x", NL>>)>>

----------------------------------------------------------------------------
(* Further properties of the manager, checked under Spec and TurnsSpec     *)

\* The 'error' application events emitted for invocation k.
ErrorEvents(k) == SelectSeq(inv[k].events, IsError)

\* C31: no invocation has more than one 'error' event, and one that has
\* returned to the drain loop has exactly one if it was rejected (its
\* process exited with a non-zero code or failed to spawn) and none if it
\* was resolved.
C31_ReportedOnce ==
    \A k \in Invs :
        /\ Len(ErrorEvents(k)) <= 1
        /\ inv[k].pc = "done" =>
               Len(ErrorEvents(k)) = (IF inv[k].error # NoError THEN 1 ELSE 0)

\* The invocations a drain loop is waiting for, or about to resume after.
InFlight == {k \in Invs : inv[k].pc # "done"}

\* C32: isProcessingQueue is true exactly while a drain loop has an
\* invocation in flight; messages wait in the queue only then; and no two
\* drain loops are active, each having one invocation in flight.
C32_Draining ==
    /\ isProcessingQueue <=> InFlight # {}
    /\ messageQueue # <<>> => isProcessingQueue
    /\ Cardinality(InFlight) <= 1

\* C32 witness: the second invocation is live after the first failed, a
\* third message waits, and the flag is set.
C32_Witness ==
    /\ InFlight = {2}
    /\ inv[2].pc = "live"
    /\ inv[1].error # NoError
    /\ messageQueue = <<3>>
    /\ isProcessingQueue

\* C33: with no stop() or restart() called, whatever clearSession() calls
\* were made, the events of an invocation's output other than 'session'
\* are those of the lines its process has printed.
C33_TurnIntact ==
    stops = <<>> =>
        \A k \in Invs :
            SelectSeq(OutputEvents(k), IsOther)
                = SelectSeq(LineEvents(inv[k].out, HasExit(k)), IsOther)

\* C34: output of the invocation that was live when clearSession() was
\* called does not set state.sessionID again.  With no stop() or restart()
\* called, an invocation whose session was reported reports no session
\* again (the decoder reports once unless it is reset, and clearSession()
\* is then the only call that resets it during the invocation).
C34_ClearDurable ==
    [][\A k \in Invs :
          stops = <<>> /\ HasSession(k) => Reported(k) = <<>>]_vars

\* C35: isRunning is true only while a spawned process is live, and pid is
\* not null only while isRunning is true.
C35_StateConsistent ==
    /\ state.isRunning => Live # {}
    /\ state.pid # 0 => state.isRunning

\* The places of the events of a kind in the log of invocation k.
Places(k, types) == {i \in DOMAIN inv[k].events : inv[k].events[i].type \in types}
Decoded_ == {"text", "tool", "step-start", "step-finish", "session", "parse-error"}

\* C36: in the log of an invocation 'running' comes before every event
\* decoded from its output, each of these, those of the flush at exit
\* included, before 'exit'; and when an invocation has its 'running' event,
\* every earlier one that had a process has its 'exit' event.
C36_Bracketing ==
    \A k \in Invs :
        /\ \A i \in Places(k, Decoded_) :
               /\ \E r \in Places(k, {"running"}) : r < i
               /\ \A x \in Places(k, {"exit"}) : i < x
        /\ \A r \in Places(k, {"running"}), x \in Places(k, {"exit"}) : r < x
        /\ Places(k, {"running"}) # {} =>
               \A j \in 1..(k - 1) : inv[j].pc = "done" /\ (Has(j, Running) /\ inv[j].error # SpawnFailure => HasExit(j))

\* C37: when an invocation is spawned the buffer of the decoder is empty,
\* and while its process is live the events emitted for its output are
\* those of the complete lines of its own output: nothing an earlier
\* process printed is part of them.
C37_NoLeak ==
    [][\A k \in Invs :
          /\ Spawning(k) => parser'.buffer = <<>>
          /\ inv'[k].pc = "live" =>
                 SelectSeq(inv'[k].events, IsOutput) = LineEvents(inv'[k].out, FALSE)]_vars

----------------------------------------------------------------------------
(* Properties of the chat view, checked under ViewSpec                     *)

\* The blocks of a tool, oldest first.
BlocksOf(name) == {i \in DOMAIN view.blocks : view.blocks[i].name = name}
Latest(name) == CHOOSE i \in BlocksOf(name) : \A j \in BlocksOf(name) : j <= i
Received == view'.seen[Len(view'.seen)]

\* C38: a tool event that is not pending, for a tool that has blocks, is
\* written into the block of that tool created last, and every other block
\* keeps what it showed: the block of an earlier call of the tool is not
\* the one that moves on.
C38_ToolProgress ==
    [][Received.status # "pending" /\ BlocksOf(Received.name) # {}
          => view'.blocks = [view.blocks EXCEPT ![Latest(Received.name)] =
                                updateToolElement(Received)]]_vars

----------------------------------------------------------------------------
(* The tool-tracking map of the decoder, checked under ToolSpec            *)

\* The ToolEvents emitted since the last reset(), and the place of the last
\* of them that has a given callID.
ToolsSinceReset == SelectSeq(EventsSinceReset, IsTool)
CallIDs == {ToolsSinceReset[i].callID : i \in DOMAIN ToolsSinceReset}
LastWith(callID) ==
    CHOOSE i \in DOMAIN ToolsSinceReset :
        /\ ToolsSinceReset[i].callID = callID
        /\ \A j \in DOMAIN ToolsSinceReset : ToolsSinceReset[j].callID = callID => j <= i

\* C39: the tool-tracking map has one entry for each callID of the
\* tool_use lines decoded since the last reset(), the entry being the
\* ToolEvent of the last of these lines with that callID; and right after
\* reset() the map, the buffer and the session latch are all cleared.
C39_ReplaceOnCallID ==
    /\ DOMAIN parser.pendingTools = CallIDs
    /\ \A c \in CallIDs : parser.pendingTools[c] = ToolsSinceReset[LastWith(c)]
    /\ lastOp.op = "reset"
           => /\ parser.pendingTools = NoTools
              /\ parser.buffer = <<>>
              /\ parser.currentSessionID = Null

\* C39 witness: c1 running, then c1 completed, were decoded, and the map
\* holds the one entry for c1, the completed one.
C39_Witness ==
    /\ Len(ToolsSinceReset) = 2
    /\ DOMAIN parser.pendingTools = {W("c1")}
    /\ ToolsSinceReset[1].status = W("running")
    /\ parser.pendingTools[W("c1")].status = W("completed")
    /\ parser.pendingTools[W("c1")].output = W("42")
====
